---- MODULE Spec2Model ----
(***************************************************************************)
(* A model of stem_pipeline.py: the import-time build of df_complete from  *)
(* the wide CSV table (melt, numeric coercion, labels, grid completion,    *)
(* label merge), the dropdown options of app.layout, and the four Dash     *)
(* callbacks download_csv, reset_filters, update_chart and update_summary. *)
(*                                                                         *)
(* Representation.  Text is a TLA+ string.  A missing value of an object   *)
(* column (pandas NaN) is the value NaN below, which no text of the model  *)
(* equals.  A numeric value that may be missing is a sequence: << >> for   *)
(* NaN and <<n>> for the number n.  A data frame is the sequence of its    *)
(* rows, each row a record of its columns.  Counts are integers.           *)
(***************************************************************************)
EXTENDS Integers, Sequences, FiniteSets, TLC

VARIABLES df, df_melted, df_complete, options, phase, ret

vars == <<df, df_melted, df_complete, options, phase, ret>>

(***************************************************************************)
(* Bounds of the model and constants of the program.                       *)
(***************************************************************************)
\* the largest number of rows of the raw table
MaxRows == 2
\* the number of year columns modelled (the program has 27: 1997..2023)
NumYears == 2
\* range(1997, 2024): the first year column
FirstYear == 1997

LastYear == FirstYear + NumYears - 1

NaN == "<NaN>"

(***************************************************************************)
(* Text helpers.                                                           *)
(***************************************************************************)
CharAt(s, i) == SubSeq(s, i, i)

Digits == {"0", "1", "2", "3", "4", "5", "6", "7", "8", "9"}

\* the characters the regex class \s matches, among those of the model
Spaces == {" "}

\* the characters of the model's texts in code point order
AsciiOrder == " -.0123456789:ABCDEFGHIJKLMNOPQRSTUVWXYZabcdefghijklmnopqrstuvwxyz|"

Ord(c) == CHOOSE i \in 1..Len(AsciiOrder) : CharAt(AsciiOrder, i) = c

RECURSIVE StrLess(_, _)
\* Python's < on str: lexicographic by code point, a proper prefix first
StrLess(a, b) ==
  IF b = "" THEN FALSE
  ELSE IF a = "" THEN TRUE
  ELSE IF Head(a) = Head(b) THEN StrLess(Tail(a), Tail(b))
  ELSE Ord(Head(a)) < Ord(Head(b))

RECURSIVE sorted(_)
\* sorted(iterable of distinct str): the ascending list
sorted(S) ==
  IF S = {} THEN << >>
  ELSE LET m == CHOOSE x \in S : \A y \in S \ {x} : StrLess(x, y)
       IN  <<m>> \o sorted(S \ {m})

RECURSIVE SeqSum(_)
SeqSum(s) == IF s = << >> THEN 0 ELSE Head(s) + SeqSum(Tail(s))

Range(s) == {s[i] : i \in DOMAIN s}

\* Series.unique(): the distinct values in order of first appearance
unique(s) ==
  LET first == {i \in DOMAIN s : \A j \in 1..(i - 1) : s[j] # s[i]}
      F[k \in 0..Len(s)] ==
        IF k = 0 THEN << >>
        ELSE IF k \in first THEN Append(F[k - 1], s[k]) ELSE F[k - 1]
  IN  F[Len(s)]

\* Series.fillna(other) on an object column
fillna(x, other) == IF x = NaN THEN other ELSE x

\* str + str on object columns: a missing operand gives a missing result
StrAdd(a, b) == IF a = NaN \/ b = NaN THEN NaN ELSE a \o b

(***************************************************************************)
(* Reshaper: pd.to_numeric(errors="coerce").fillna(0)                      *)
(***************************************************************************)
RECURSIVE DigitsValue(_)
DigitsValue(s) ==
  IF s = "" THEN 0
  ELSE 10 * DigitsValue(SubSeq(s, 1, Len(s) - 1)) + (Ord(CharAt(s, Len(s))) - Ord("0"))

IsDigits(s) == Len(s) > 0 /\ \A i \in 1..Len(s) : CharAt(s, i) \in Digits

\* pd.to_numeric(cell, errors="coerce") on the cell texts of the model:
\* a decimal integer with an optional sign parses, anything else is NaN
to_numeric(cell) ==
  IF IsDigits(cell) THEN <<DigitsValue(cell)>>
  ELSE IF Len(cell) > 1 /\ Head(cell) = "-" /\ IsDigits(Tail(cell))
       THEN <<0 - DigitsValue(Tail(cell))>>
  ELSE << >>

\* .fillna(0) on the numeric column
fillna0(n) == IF n = << >> THEN 0 ELSE n[1]

CoerceCount(cell) == fillna0(to_numeric(cell))

year_cols == [i \in 1..NumYears |-> FirstYear + i - 1]

all_years == [i \in 1..NumYears |-> FirstYear + i - 1]

\* df.melt(id_vars, value_vars=year_cols): one block of rows per year column,
\* the raw rows in their order inside each block
melt(d) ==
  [k \in 1..(Len(d) * NumYears) |->
     LET r == d[((k - 1) % Len(d)) + 1]
         y == year_cols[((k - 1) \div Len(d)) + 1]
     IN  [Citizenship |-> r.Citizenship, CIP |-> r.CIP,
          AwardLevelCode |-> r.AwardLevelCode,
          Year |-> y, Count |-> CoerceCount(r.cells[y])]]

(***************************************************************************)
(* Labeler                                                                 *)
(***************************************************************************)
US_LONG == "U.S. citizen or permanent resident"

INTL_LONG == "Nonresident alien (temporary visa)"

\* Series.map(citizenship_map): NaN for a key the dict lacks
citizenship_map(c) ==
  IF c = US_LONG THEN "US" ELSE IF c = INTL_LONG THEN "INTL" ELSE NaN

\* Series.map(award_map)
award_map(a) ==
  IF a = "17" THEN "BA" ELSE IF a = "18" THEN "MA"
  ELSE IF a = "19" THEN "PhD" ELSE NaN

\* Series.astype(str): a missing value becomes the text "nan"
astype_str(a) == IF a = NaN THEN "nan" ELSE a

CitizenshipAbbrOf(c) == fillna(citizenship_map(c), c)

AwardAbbrOf(a) == fillna(award_map(astype_str(a)), astype_str(a))

RECURSIVE SkipChars(_, _, _)
\* the first position >= i of s whose character is not in class (Len(s)+1 if none)
SkipChars(s, i, class) ==
  IF i > Len(s) \/ CharAt(s, i) \notin class THEN i
  ELSE SkipChars(s, i + 1, class)

\* the position of the first digit of s, 0 if s has none
FirstDigit(s) ==
  IF \E i \in 1..Len(s) : CharAt(s, i) \in Digits
  THEN CHOOSE i \in 1..Len(s) :
         /\ CharAt(s, i) \in Digits
         /\ \A j \in 1..(i - 1) : CharAt(s, j) \notin Digits
  ELSE 0

\* Series.str.extract(r"\d+\s*[-:]*\s*(.*)")[0]: re.search finds the leftmost
\* match, which starts at the first digit; every quantifier is greedy and
\* the final group accepts any rest, so no backtracking happens
str_extract(s) ==
  IF s = NaN THEN NaN
  ELSE LET i == FirstDigit(s)
       IN  IF i = 0 THEN NaN
           ELSE LET a == SkipChars(s, i, Digits)
                    b == SkipChars(s, a, Spaces)
                    c == SkipChars(s, b, {"-", ":"})
                    e == SkipChars(s, c, Spaces)
                IN  SubSeq(s, e, Len(s))

CIPLabelOf(p) == fillna(str_extract(p), "")

GroupOf(cit, award, cip) == StrAdd(StrAdd(StrAdd(StrAdd(cit, " | "), award), " | "), cip)

\* lines 25-36 applied to one melted row
LabelRow(m) ==
  LET cit   == CitizenshipAbbrOf(m.Citizenship)
      award == AwardAbbrOf(m.AwardLevelCode)
      cip   == CIPLabelOf(m.CIP)
      group == GroupOf(cit, award, cip)
  IN  [Citizenship |-> m.Citizenship, CIP |-> m.CIP,
       AwardLevelCode |-> m.AwardLevelCode,
       Year |-> m.Year, Count |-> m.Count,
       CitizenshipAbbr |-> fillna(cit, "Unknown"),
       AwardAbbr |-> fillna(award, "Unknown"),
       CIPLabel |-> fillna(cip, "Unknown"),
       Group |-> fillna(group, "Unknown")]

Labelled(d) == [k \in 1..Len(d) |-> LabelRow(d[k])]

(***************************************************************************)
(* Grid Completer                                                          *)
(***************************************************************************)
Column(d, name) == [k \in 1..Len(d) |-> d[k][name]]

\* pd.MultiIndex.from_product([groups, years]): every group with every year,
\* the groups in their order, the years ascending inside each group
from_product(groups, years) ==
  [k \in 1..(Len(groups) * Len(years)) |->
     [Group |-> groups[((k - 1) \div Len(years)) + 1],
      Year  |-> years[((k - 1) % Len(years)) + 1]]]

\* whether two rows of d carry the same (Group, Year) index entry
HasDuplicateIndex(d) ==
  \E i, j \in 1..Len(d) :
     i < j /\ d[i].Group = d[j].Group /\ d[i].Year = d[j].Year

\* d.set_index(["Group", "Year"])["Count"].reindex(index, fill_value=0)
\*   .reset_index(): pandas raises ValueError ("cannot handle a non-unique
\* multi-index!") when the index of d has a duplicate entry; otherwise each
\* entry of the target gets the Count d holds for it, or the fill value
reindex(d, index) ==
  IF HasDuplicateIndex(d)
  THEN [raised |-> "ValueError", rows |-> << >>]
  ELSE [raised |-> "",
        rows |-> [k \in 1..Len(index) |->
                   LET hit == {i \in 1..Len(d) : /\ d[i].Group = index[k].Group
                                                 /\ d[i].Year = index[k].Year}
                   IN  [Group |-> index[k].Group, Year |-> index[k].Year,
                        Count |-> IF hit = {} THEN 0
                                  ELSE d[CHOOSE i \in hit : TRUE].Count]]]

RECURSIVE ConcatByYear(_, _)
ConcatByYear(d, years) ==
  IF years = << >> THEN << >>
  ELSE SelectSeq(d, LAMBDA r : r.Year = Head(years)) \o ConcatByYear(d, Tail(years))

\* d.sort_values("Year"): ascending by Year.  Rows of equal Year are kept in
\* their order here; the program's default sort may permute them, which
\* changes nothing below: when line 45 runs, line 42 has not raised, so no
\* two rows of equal Year carry the same Group.
sort_values_Year(d) == ConcatByYear(d, all_years)

\* d.drop_duplicates("Group"): the first row of every Group
drop_duplicates_Group(d) ==
  LET keep == {i \in 1..Len(d) : \A j \in 1..(i - 1) : d[j].Group # d[i].Group}
      F[k \in 0..Len(d)] ==
        IF k = 0 THEN << >>
        ELSE IF k \in keep THEN Append(F[k - 1], d[k]) ELSE F[k - 1]
  IN  F[Len(d)]

\* lines 45-48 without .drop_duplicates("Group")
LabelsOf_NoDropDuplicates(m) ==
  LET chosen == sort_values_Year(SelectSeq(m, LAMBDA r : r.Count > 0))
  IN  [k \in 1..Len(chosen) |->
         [Group |-> chosen[k].Group,
          CitizenshipAbbr |-> chosen[k].CitizenshipAbbr,
          AwardAbbr |-> chosen[k].AwardAbbr,
          CIPLabel |-> chosen[k].CIPLabel]]

\* lines 45-48
LabelsOf(m) ==
  LET chosen == drop_duplicates_Group(
                  sort_values_Year(SelectSeq(m, LAMBDA r : r.Count > 0)))
  IN  [k \in 1..Len(chosen) |->
         [Group |-> chosen[k].Group,
          CitizenshipAbbr |-> chosen[k].CitizenshipAbbr,
          AwardAbbr |-> chosen[k].AwardAbbr,
          CIPLabel |-> chosen[k].CIPLabel]]

RECURSIVE merge_left(_, _)
\* left.merge(right, on="Group", how="left"): every left row once per right
\* row of its Group, and once with missing labels when there is none
merge_left(left, right) ==
  IF left = << >> THEN << >>
  ELSE LET g == Head(left)
           matches == SelectSeq(right, LAMBDA r : r.Group = g.Group)
           joined ==
             IF matches = << >>
             THEN << [Group |-> g.Group, Year |-> g.Year, Count |-> g.Count,
                      CitizenshipAbbr |-> NaN, AwardAbbr |-> NaN,
                      CIPLabel |-> NaN] >>
             ELSE [k \in 1..Len(matches) |->
                     [Group |-> g.Group, Year |-> g.Year, Count |-> g.Count,
                      CitizenshipAbbr |-> matches[k].CitizenshipAbbr,
                      AwardAbbr |-> matches[k].AwardAbbr,
                      CIPLabel |-> matches[k].CIPLabel]]
       IN  joined \o merge_left(Tail(left), right)

\* sorted(column.dropna().unique()) of a dropdown of app.layout
DropdownOptions(d, name) == sorted(Range(Column(d, name)) \ {NaN})

LayoutOptions(d) ==
  [citizenship |-> DropdownOptions(d, "CitizenshipAbbr"),
   award       |-> DropdownOptions(d, "AwardAbbr"),
   field       |-> DropdownOptions(d, "CIPLabel")]

NoOptions == [citizenship |-> << >>, award |-> << >>, field |-> << >>]

\* the module body, lines 9-72, run on the loaded table d
build(d) ==
  LET melted     == Labelled(melt(d))
      all_groups == unique(Column(melted, "Group"))
      index      == from_product(all_groups, all_years)
      first      == reindex(melted, from_product(all_groups, all_years))
      second     == reindex(first.rows, index)
      labels     == LabelsOf(melted)
      complete   == merge_left(second.rows, labels)
  IN  IF first.raised # ""
      THEN [raised |-> first.raised, df_melted |-> melted,
            df_complete |-> << >>, options |-> NoOptions]
      ELSE IF second.raised # ""
      THEN [raised |-> second.raised, df_melted |-> melted,
            df_complete |-> << >>, options |-> NoOptions]
      ELSE [raised |-> "", df_melted |-> melted,
            df_complete |-> complete, options |-> LayoutOptions(complete)]

(***************************************************************************)
(* The tables the model loads.                                             *)
(***************************************************************************)
YearSet == FirstYear..LastYear

\* the raw rows with categorical columns <<Citizenship, CIP, Award Level Code>>
\* in keys and year cells in cells
RawRows(keys, cells) ==
  {[Citizenship |-> k[1], CIP |-> k[2], AwardLevelCode |-> k[3], cells |-> c] :
     k \in keys, c \in [YearSet -> cells]}

Tables(rows) == UNION {[1..n -> rows] : n \in 0..MaxRows}

NoCall == [op |-> "none"]

InitWith(tables) ==
  /\ df \in tables
  /\ df_melted = << >>
  /\ df_complete = << >>
  /\ options = NoOptions
  /\ phase = "loaded"
  /\ ret = NoCall

\* importing the module: the build and the layout
Build ==
  /\ phase = "loaded"
  /\ LET b == build(df)
     IN  /\ df_melted' = b.df_melted
         /\ df_complete' = b.df_complete
         /\ options' = b.options
         /\ phase' = IF b.raised = "" THEN "built" ELSE "failed"
  /\ UNCHANGED <<df, ret>>

(***************************************************************************)
(* The build alone, over a wide choice of raw tables.                      *)
(***************************************************************************)
BuildCitizenships == {US_LONG, "US", INTL_LONG}

BuildCips == {"14 - Engineering", "Engineering"}

BuildAwards == {"17", "19"}

BuildCells == {"", "abc", "-1", "1"}

InitBuild ==
  InitWith(Tables(RawRows(BuildCitizenships \X BuildCips \X BuildAwards, BuildCells)))

NextBuild == Build

SpecBuild == InitBuild /\ [][NextBuild]_vars

(***************************************************************************)
(* Query callbacks.  Each operator gives the value the callback returns,   *)
(* the exception it raises ("" for none), its local df_filtered, and the   *)
(* global df_complete as the call leaves it.  A filter list is modelled by *)
(* the set of its elements; the empty list is the empty set.               *)
(***************************************************************************)
\* a range check that leaves the right end out
between_RightOpen(y, left, right) == left <= y /\ y < right

\* Series.between(left, right): inclusive on both sides
between(y, left, right) == left <= y /\ y <= right

\* lines 102-111 filtering the global frame itself instead of a copy
download_csv_InPlace(d, citizenship, award, field, year_range) ==
  LET f1 == IF citizenship # {}
            THEN SelectSeq(d, LAMBDA r : r.CitizenshipAbbr \in citizenship) ELSE d
      f2 == IF award # {}
            THEN SelectSeq(f1, LAMBDA r : r.AwardAbbr \in award) ELSE f1
      f3 == IF field # {}
            THEN SelectSeq(f2, LAMBDA r : r.CIPLabel \in field) ELSE f2
      f4 == SelectSeq(f3, LAMBDA r : year_range[1] <= r.Year /\ r.Year <= year_range[2])
  IN  [df_complete |-> f4, raised |-> "", df_filtered |-> f4,
       value |-> [filename |-> "filtered_data.csv", rows |-> f4]]

\* lines 102-111
download_csv(d, citizenship, award, field, year_range) ==
  LET f0 == d
      f1 == IF citizenship # {}
            THEN SelectSeq(f0, LAMBDA r : r.CitizenshipAbbr \in citizenship) ELSE f0
      f2 == IF award # {}
            THEN SelectSeq(f1, LAMBDA r : r.AwardAbbr \in award) ELSE f1
      f3 == IF field # {}
            THEN SelectSeq(f2, LAMBDA r : r.CIPLabel \in field) ELSE f2
      f4 == SelectSeq(f3, LAMBDA r : between(r.Year, year_range[1], year_range[2]))
  IN  [df_complete |-> d, raised |-> "", df_filtered |-> f4,
       value |-> [filename |-> "filtered_data.csv", rows |-> f4]]

\* lines 120-121
reset_filters(d) ==
  [df_complete |-> d, raised |-> "",
   value |-> <<{}, {}, {}, <<FirstYear, LastYear>>>>]

\* an emptiness test that never answers yes
is_empty_Never(d) == FALSE

\* DataFrame.empty / Series.empty
is_empty(d) == d = << >>

NoDataTitle == "No data available for the selected filters"

ChartTitle == "The US STEM Talent Pipeline From 1997 to 2023"

\* lines 131-154
update_chart(d, citizenship, award, field, year_range, chart_type) ==
  LET f0 == d
      f1 == IF citizenship # {}
            THEN SelectSeq(f0, LAMBDA r : r.CitizenshipAbbr \in citizenship) ELSE f0
      f2 == IF award # {}
            THEN SelectSeq(f1, LAMBDA r : r.AwardAbbr \in award) ELSE f1
      f3 == IF field # {}
            THEN SelectSeq(f2, LAMBDA r : r.CIPLabel \in field) ELSE f2
      f4 == SelectSeq(f3, LAMBDA r : between(r.Year, year_range[1], year_range[2]))
      fig == IF is_empty(f4)
             THEN [kind |-> "line", barmode |-> "", data |-> << >>, title |-> NoDataTitle]
             ELSE IF chart_type = "bar"
             THEN [kind |-> "bar", barmode |-> "group", data |-> f4, title |-> ChartTitle]
             ELSE IF chart_type = "stack"
             THEN [kind |-> "bar", barmode |-> "stack", data |-> f4, title |-> ChartTitle]
             ELSE [kind |-> "line", barmode |-> "", data |-> f4, title |-> ChartTitle]
  IN  [df_complete |-> d, raised |-> "", df_filtered |-> f4, value |-> fig]

\* df_filtered.groupby("Year")["Count"].sum().sort_index(): one entry per Year
\* that has a row, ascending
groupby_Year_sum(d) ==
  LET present == SelectSeq(all_years, LAMBDA y : \E i \in 1..Len(d) : d[i].Year = y)
  IN  [k \in 1..Len(present) |->
         [Year |-> present[k],
          Count |-> SeqSum(Column(SelectSeq(d, LAMBDA r : r.Year = present[k]), "Count"))]]

\* an idxmax that answers the last occurrence of the maximum
idxmax_Last(g) ==
  IF g = << >> THEN [raised |-> "ValueError", value |-> 0]
  ELSE [raised |-> "",
        value |-> g[CHOOSE i \in 1..Len(g) :
                      /\ \A j \in 1..Len(g) : g[j].Count <= g[i].Count
                      /\ \A j \in (i + 1)..Len(g) : g[j].Count < g[i].Count].Year]

\* Series.idxmax(): the index label of the first occurrence of the maximum;
\* ValueError on an empty Series
idxmax(g) ==
  IF g = << >> THEN [raised |-> "ValueError", value |-> 0]
  ELSE [raised |-> "",
        value |-> g[CHOOSE i \in 1..Len(g) :
                      /\ \A j \in 1..Len(g) : g[j].Count <= g[i].Count
                      /\ \A j \in 1..(i - 1) : g[j].Count < g[i].Count].Year]

\* lines 163-190.  The cards show int(total) with thousands separators and
\* str(peak_year); on the integer counts of the model int() changes nothing.
update_summary(d, citizenship, award, field, year_range) ==
  LET f0 == d
      f1 == IF citizenship # {}
            THEN SelectSeq(f0, LAMBDA r : r.CitizenshipAbbr \in citizenship) ELSE f0
      f2 == IF award # {}
            THEN SelectSeq(f1, LAMBDA r : r.AwardAbbr \in award) ELSE f1
      f3 == IF field # {}
            THEN SelectSeq(f2, LAMBDA r : r.CIPLabel \in field) ELSE f2
      f4 == SelectSeq(f3, LAMBDA r : between(r.Year, year_range[1], year_range[2]))
      total == SeqSum(Column(f4, "Count"))
      grouped == groupby_Year_sum(f4)
      peak_year == idxmax(grouped)
  IN  IF is_empty(grouped)
      THEN [df_complete |-> d, raised |-> "", df_filtered |-> f4, value |-> << >>]
      ELSE IF peak_year.raised # ""
      THEN [df_complete |-> d, raised |-> peak_year.raised, df_filtered |-> f4,
            value |-> << >>]
      ELSE [df_complete |-> d, raised |-> "", df_filtered |-> f4,
            value |-> << [card |-> "Total Degrees", shown |-> total],
                         [card |-> "Peak Year", shown |-> peak_year.value] >>]

(***************************************************************************)
(* The served application: the build, then callbacks in any order, one     *)
(* request at a time.                                                      *)
(***************************************************************************)
QueryKeys ==
  { <<US_LONG, "14 - Engineering", "17">>,
    <<INTL_LONG, "Computing", "19">> }

QueryCells == {"", "1"}

CitizenshipChoices == {{}, {"US"}, {"US", "INTL"}}

AwardChoices == {{}, {"PhD"}}

FieldChoices == {{}, {"Engineering"}}

\* the slider's two handles, and also min > max
YearRanges == YearSet \X YearSet

ChartTypes == {"line", "bar", "stack"}

Init == InitWith(Tables(RawRows(QueryKeys, QueryCells)))

DownloadCsv ==
  /\ phase = "built"
  /\ ret = NoCall
  /\ \E c \in CitizenshipChoices, a \in AwardChoices, f \in FieldChoices,
        yr \in YearRanges :
       LET r == download_csv(df_complete, c, a, f, yr)
       IN  /\ df_complete' = r.df_complete
           /\ ret' = [op |-> "download_csv", citizenship |-> c, award |-> a,
                      field |-> f, year_range |-> yr, raised |-> r.raised,
                      df_filtered |-> r.df_filtered, value |-> r.value]
  /\ UNCHANGED <<df, df_melted, options, phase>>

ResetFilters ==
  /\ phase = "built"
  /\ ret = NoCall
  /\ LET r == reset_filters(df_complete)
     IN  /\ df_complete' = r.df_complete
         /\ ret' = [op |-> "reset_filters", raised |-> r.raised, value |-> r.value]
  /\ UNCHANGED <<df, df_melted, options, phase>>

UpdateChart ==
  /\ phase = "built"
  /\ ret = NoCall
  /\ \E c \in CitizenshipChoices, a \in AwardChoices, f \in FieldChoices,
        yr \in YearRanges, t \in ChartTypes :
       LET r == update_chart(df_complete, c, a, f, yr, t)
       IN  /\ df_complete' = r.df_complete
           /\ ret' = [op |-> "update_chart", citizenship |-> c, award |-> a,
                      field |-> f, year_range |-> yr, chart_type |-> t,
                      raised |-> r.raised,
                      df_filtered |-> r.df_filtered, value |-> r.value]
  /\ UNCHANGED <<df, df_melted, options, phase>>

UpdateSummary ==
  /\ phase = "built"
  /\ ret = NoCall
  /\ \E c \in CitizenshipChoices, a \in AwardChoices, f \in FieldChoices,
        yr \in YearRanges :
       LET r == update_summary(df_complete, c, a, f, yr)
       IN  /\ df_complete' = r.df_complete
           /\ ret' = [op |-> "update_summary", citizenship |-> c, award |-> a,
                      field |-> f, year_range |-> yr, raised |-> r.raised,
                      df_filtered |-> r.df_filtered, value |-> r.value]
  /\ UNCHANGED <<df, df_melted, options, phase>>

\* the returned value leaves the server in the response to the browser
Respond ==
  /\ ret # NoCall
  /\ ret' = NoCall
  /\ UNCHANGED <<df, df_melted, df_complete, options, phase>>

Next ==
  \/ Build
  \/ DownloadCsv
  \/ ResetFilters
  \/ UpdateChart
  \/ UpdateSummary
  \/ Respond

Spec == Init /\ [][Next]_vars

(***************************************************************************)
(* The Labeler alone: one raw row, its categorical texts drawn widely.     *)
(***************************************************************************)
\* the longest CIP text built from CipAlphabet
MaxCipLen == 4

CipAlphabet == {"1", " ", "-", "E"}

RECURSIVE TextsUpTo(_, _)
\* every text of at most n characters of alphabet
TextsUpTo(alphabet, n) ==
  IF n = 0 THEN {""}
  ELSE LET shorter == TextsUpTo(alphabet, n - 1)
       IN  shorter \cup {t \o c : t \in shorter, c \in alphabet}

LabelCitizenships == {US_LONG, INTL_LONG, "US", "A", "A | B", NaN}

LabelAwards == {"17", "18", "19", "C", "B | C", NaN}

LabelCips == TextsUpTo(CipAlphabet, MaxCipLen) \cup {"14 - Engineering", "11: Computing", NaN}

LabelKeys == LabelCitizenships \X LabelCips \X LabelAwards

InitLabel == InitWith([1..1 -> RawRows(LabelKeys, {"1"})])

NextLabel == Build

SpecLabel == InitLabel /\ [][NextLabel]_vars

(***************************************************************************)
(* Claims.                                                                 *)
(***************************************************************************)
GroupsOf(d) == Range(Column(d, "Group"))

RowsAt(d, g, y) == {i \in 1..Len(d) : d[i].Group = g /\ d[i].Year = y}

RECURSIVE SumCounts(_, _)
\* the sum of Count over the rows of d with index in I
SumCounts(d, I) ==
  IF I = {} THEN 0
  ELSE LET i == CHOOSE j \in I : TRUE IN d[i].Count + SumCounts(d, I \ {i})

Triple(r) == <<r.CitizenshipAbbr, r.AwardAbbr, r.CIPLabel>>

\* two raw rows of the table were given the same Group
Collapsed == \E i, j \in 1..Len(df) : i < j /\ df_melted[i].Group = df_melted[j].Group

\* C2: when two or more raw rows map to the same GroupKey the build does not
\* fail, and the row of the complete dataset for every (GroupKey, Year) holds
\* the sum of the Counts of all Observations with that GroupKey and Year.
C2_CollapsedRowsAreSummed ==
  (phase # "loaded" /\ Collapsed) =>
     /\ phase = "built"
     /\ \A k \in 1..Len(df_complete) :
          df_complete[k].Count =
            SumCounts(df_melted, RowsAt(df_melted, df_complete[k].Group, df_complete[k].Year))

\* the Observation the label triple of group g is to be taken from: the first
\* one of the earliest Year among those with positive Count, and the first
\* Observation of g when none is positive
LabelSource(g) ==
  LET mine == {i \in 1..Len(df_melted) : df_melted[i].Group = g}
      pos  == {i \in mine : df_melted[i].Count > 0}
      best == {i \in pos : \A j \in pos :
                 \/ df_melted[i].Year < df_melted[j].Year
                 \/ (df_melted[i].Year = df_melted[j].Year /\ i <= j)}
  IN  IF pos # {} THEN CHOOSE i \in best : TRUE
      ELSE CHOOSE i \in mine : \A j \in mine : i <= j

\* C3: every row of the complete dataset carries the label triple of its
\* GroupKey: that of the positive Observation of the earliest Year, or of the
\* first Observation of the GroupKey when no Count is positive; no label of an
\* all-zero GroupKey is missing.
C3_EveryRowLabelled ==
  phase = "built" =>
     \A k \in 1..Len(df_complete) :
        /\ Triple(df_complete[k]) = Triple(df_melted[LabelSource(df_complete[k].Group)])
        /\ NaN \notin Range(Triple(df_complete[k]))

\* C4: every row of the complete dataset has a Count that is present and >= 0,
\* whatever the year cells held (numbers, negative numbers, blanks, text).
C4_CountsNonNegative ==
  phase = "built" => \A k \in 1..Len(df_complete) : df_complete[k].Count \in Nat

\* s lists the members of S once each in ascending order
IsAscendingListOf(s, S) ==
  /\ Range(s) = S
  /\ \A i, j \in 1..Len(s) : i < j => StrLess(s[i], s[j])

NonEmptyValues(d, name) == Range(Column(d, name)) \ {NaN, ""}

\* C10: each dropdown offers exactly the distinct non-empty values of its label
\* column that occur in the complete dataset, once each, ascending; no empty
\* text and no missing value is offered.
C10_OptionsAreNonEmptyValues ==
  phase = "built" =>
     /\ IsAscendingListOf(options.citizenship, NonEmptyValues(df_complete, "CitizenshipAbbr"))
     /\ IsAscendingListOf(options.award, NonEmptyValues(df_complete, "AwardAbbr"))
     /\ IsAscendingListOf(options.field, NonEmptyValues(df_complete, "CIPLabel"))

\* C1: after a build that completes, the complete dataset holds exactly one
\* row for every Group of the melted data and every Year of the range: its
\* length is (number of distinct Groups) x (number of Years), no pair is
\* missing and none appears twice.
C1_GridIsComplete ==
  phase = "built" =>
     /\ Len(df_complete) = Cardinality(GroupsOf(df_melted)) * NumYears
     /\ \A g \in GroupsOf(df_melted), y \in YearSet :
          Cardinality(RowsAt(df_complete, g, y)) = 1

C1_Witness ==
  /\ phase = "built"
  /\ Cardinality(GroupsOf(df_melted)) = 2
  /\ \A g \in GroupsOf(df_melted) :
       \A y \in YearSet : \E i \in RowsAt(df_melted, g, y) : df_melted[i].Count > 0

QueryOps == {"download_csv", "update_chart", "update_summary"}

\* row r satisfies the FilterSpec <<c, a, f, yr>>
Matches(r, c, a, f, yr) ==
  /\ c = {} \/ r.CitizenshipAbbr \in c
  /\ a = {} \/ r.AwardAbbr \in a
  /\ f = {} \/ r.CIPLabel \in f
  /\ yr[1] <= r.Year /\ r.Year <= yr[2]

\* the indices of the rows of the complete dataset the FilterSpec selects
Selected(c, a, f, yr) ==
  {i \in 1..Len(df_complete) : Matches(df_complete[i], c, a, f, yr)}

\* d is the part of the complete dataset with index in I, in its order
IsSelection(d, I) ==
  /\ Len(d) = Cardinality(I)
  /\ Range(d) = {df_complete[i] : i \in I}
  /\ d = SelectSeq(df_complete, LAMBDA r : r \in Range(d))

\* C5: each of download_csv, update_chart and update_summary selects exactly
\* the rows whose citizenship, award and field are in the respective set or
\* the set is empty and whose Year is in [min, max]; with the three sets empty
\* these are the rows with Year in [min, max]; the rows handed to the CSV
\* export and to the chart are the selected ones.
C5_FilterSelectsMatchingRows ==
  ret.op \in QueryOps =>
     /\ IsSelection(ret.df_filtered,
                    Selected(ret.citizenship, ret.award, ret.field, ret.year_range))
     /\ (ret.citizenship = {} /\ ret.award = {} /\ ret.field = {}) =>
          IsSelection(ret.df_filtered,
                      {i \in 1..Len(df_complete) :
                         /\ ret.year_range[1] <= df_complete[i].Year
                         /\ df_complete[i].Year <= ret.year_range[2]})
     /\ ret.op = "download_csv" => ret.value.rows = ret.df_filtered
     /\ ret.op = "update_chart" => ret.value.data = ret.df_filtered

C5_Witness ==
  /\ ret.op = "update_chart"
  /\ ret.citizenship = {"US"}
  /\ ret.award = {}
  /\ ret.year_range = <<LastYear, LastYear>>
  /\ Len(ret.df_filtered) = 1
  /\ Len(df_complete) = 2 * NumYears

PerYear(I, y) == SumCounts(df_complete, {i \in I : df_complete[i].Year = y})

ClaimedCitizenshipAbbr(c) ==
  IF c = US_LONG THEN "US" ELSE IF c = INTL_LONG THEN "INTL" ELSE c

ClaimedAwardAbbr(a) ==
  IF a = "17" THEN "BA" ELSE IF a = "18" THEN "MA" ELSE IF a = "19" THEN "PhD" ELSE a

\* the text after a leading numeric code and its separator; empty when the
\* text does not start with a numeric code
ClaimedCIPLabel(p) ==
  IF p = NaN \/ p = "" THEN ""
  ELSE IF Head(p) \notin Digits THEN ""
  ELSE LET a == SkipChars(p, 1, Digits)
           b == SkipChars(p, a, Spaces)
           c == SkipChars(p, b, {"-", ":"})
           e == SkipChars(p, c, Spaces)
       IN  SubSeq(p, e, Len(p))

\* raw rows to compare a labelled row with
ProbeRows ==
  {[Citizenship |-> k[1], CIP |-> k[2], AwardLevelCode |-> k[3],
    Year |-> FirstYear, Count |-> 1] :
     k \in {US_LONG, "A", "A | B"} \X {"14 - Engineering"} \X {"17", "C", "B | C"}}

\* C9: for every raw record (here: one whose three fields are all present)
\* the Labeler yields, with no missing value, Citizenship Abbr = the synonym
\* table's value or the raw text, Award Abbr = BA/MA/PhD for 17/18/19 or the
\* raw code, CIP Label = the text after a leading numeric code and its
\* separator or the empty text when the CIP text does not start with a code,
\* Group = the three joined by " | ", and two different label triples never
\* share a Group.
C9_LabelerContract ==
  phase = "built" =>
     \A k \in 1..Len(df_melted) :
        LET m == df_melted[k]
        IN  NaN \notin {m.Citizenship, m.AwardLevelCode, m.CIP} =>
              /\ NaN \notin {m.CitizenshipAbbr, m.AwardAbbr, m.CIPLabel, m.Group}
              /\ m.CitizenshipAbbr = ClaimedCitizenshipAbbr(m.Citizenship)
              /\ m.AwardAbbr = ClaimedAwardAbbr(m.AwardLevelCode)
              /\ m.CIPLabel = ClaimedCIPLabel(m.CIP)
              /\ m.Group = m.CitizenshipAbbr \o " | " \o m.AwardAbbr \o " | " \o m.CIPLabel
              /\ \A o \in ProbeRows :
                   Triple(LabelRow(o)) # Triple(m) => LabelRow(o).Group # m.Group

====
